---------------------------- MODULE Spec2Model ----------------------------
(***************************************************************************)
(* A model of fheroes2's AGGFile (src/engine/agg_file.cpp): the archive    *)
(* index built by AGGFile::open, the override store filled by              *)
(* AGGFile::collectExternals, the lookup AGGFile::read, and the sprite     *)
(* container encoder AGGFile::spawnIcnFromDir / getPixelsFromSurface.      *)
(*                                                                         *)
(* Two specifications:                                                     *)
(*   Spec     the facade: open and read on byte-level archive files and    *)
(*            byte-level encoder output (small images);                    *)
(*   SpecEnc  the encoder alone, one loop iteration per step, with the     *)
(*            sizes and counters of the code as numbers of their C++       *)
(*            width, so that listings of more than 65535 files and frame   *)
(*            data of more than 2^32 bytes are reached.                    *)
(***************************************************************************)
EXTENDS Integers, Sequences, FiniteSets, TLC

VARIABLES
    \* ---- the facade (class AGGFile) ----
    files,        \* _files: name -> <<size, offset>>
    externals,    \* _externals: name -> <<bytes, TRUE>>
    stream,       \* _stream: [bytes: the open file, fail: the failure flag]
    lastOpen,     \* the last open call: its arguments and what it returned
    lastRead,     \* the last read call: its argument, result and accesses
    opened,       \* the archive files open has been called with so far
    nOpens,       \* number of open calls so far
    \* ---- one call of spawnIcnFromDir, step by step ----
    pc,           \* "idle", "loop" (inside the for loop) or "done" (returned)
    pngFiles,     \* the listing: [n: number of files, bulk: all files alike]
    idx,          \* files of the listing consumed so far
    count,        \* const uint16_t count
    currentOffset,\* uint32_t currentOffset
    resultSize,   \* result.size()
    nSlots,       \* slot records appended to result so far
    slotHeader,   \* the slot header built last
    slotAt,       \* the index in result where that header was inserted
    live,         \* SDL surfaces created and not freed
    ret,          \* what the call returned
    hist          \* what the listing held so far (sums the claims speak of)

facadeVars == <<files, externals, stream, lastOpen, lastRead, opened, nOpens>>
encVars == <<pc, pngFiles, idx, count, currentOffset, resultSize, nSlots,
             slotHeader, slotAt, live, ret, hist>>
vars == <<files, externals, stream, lastOpen, lastRead, opened, nOpens,
          pc, pngFiles, idx, count, currentOffset, resultSize, nSlots,
          slotHeader, slotAt, live, ret, hist>>

---------------------------------------------------------------------------
(* Bounds of the model.                                                    *)

\* open calls in one behaviour
MaxOpens == 2
\* files of an explicit (non-bulk) listing given to the stepwise encoder
MaxPngs == 4

---------------------------------------------------------------------------
(* Integer widths and format constants.                                    *)

U8 == 256
U16 == 65536

\* sizeof( uint32_t ) * 3
fileRecordSize == 12
\* AGGFile::_maxFilenameSize (agg_file.h)
maxFilenameSize == 15
\* const size_t slotHeaderSize = 13
slotHeaderSize == 13
\* the three bytes 0xAB 0xCD 0xEF appended after each slot header
markerSize == 3
\* StreamBuf iconHeader( 6 )
iconHeaderSize == 6

---------------------------------------------------------------------------
(* Byte sequences: the little-endian writers and readers of StreamBuf.     *)

putLE16(x) == << x % U8, (x \div U8) % U8 >>

\* (the low 32 bits of x; the numbers written here stay below 2^31)
putLE32(x) == << x % U8, (x \div U8) % U8, (x \div (U8 * U8)) % U8,
                 (x \div (U8 * U8 * U8)) % U8 >>

\* A read past the end of a buffer yields 0.
byteAt(buf, pos) == IF pos + 1 <= Len(buf) THEN buf[pos + 1] ELSE 0

getLE16(buf, pos) == byteAt(buf, pos) + U8 * byteAt(buf, pos + 1)

getLE32(buf, pos) ==
    byteAt(buf, pos) + U8 * byteAt(buf, pos + 1)
        + U8 * U8 * byteAt(buf, pos + 2) + U8 * U8 * U8 * byteAt(buf, pos + 3)

\* StreamBuf::toString( sz ): the bytes of the sz-wide field at pos up to its
\* first NUL.
RECURSIVE toStringFrom(_, _, _)
toStringFrom(buf, pos, sz) ==
    IF sz = 0 \/ byteAt(buf, pos) = 0
    THEN << >>
    ELSE << byteAt(buf, pos) >> \o toStringFrom(buf, pos + 1, sz - 1)

toString(buf, pos, sz) == toStringFrom(buf, pos, sz)

\* StreamFile::getRaw( n ) at position pos: the n bytes; nothing and the
\* failure flag when the file does not hold them or the read faults; nothing
\* when the stream has no file (bytes = << >>: its last open failed).
getRaw(bytes, pos, n, fault) ==
    IF bytes = << >>
    THEN [data |-> << >>, fail |-> FALSE]
    ELSE IF fault \/ pos + n > Len(bytes)
    THEN [data |-> << >>, fail |-> TRUE]
    ELSE [data |-> SubSeq(bytes, pos + 1, pos + n), fail |-> FALSE]

EmptyMap == [k \in {} |-> << >>]

\* std::map::try_emplace: the first value inserted for a key stays.
try_emplace(m, k, v) == IF k \in DOMAIN m THEN m ELSE m @@ (k :> v)

---------------------------------------------------------------------------
(* Names are byte strings (sequences of character codes).                  *)

\* "A.ICN", "B.ICN", "C.ICN" and, as they may be spelled on disk, "a.icn",
\* "b.icn", "c.icn", "x.wav", "." and "notes"
NameA == << 65, 46, 73, 67, 78 >>
NameB == << 66, 46, 73, 67, 78 >>
NameC == << 67, 46, 73, 67, 78 >>
DiskA == << 97, 46, 105, 99, 110 >>
DiskB == << 98, 46, 105, 99, 110 >>
DiskC == << 99, 46, 105, 99, 110 >>
DiskWav == << 120, 46, 119, 97, 118 >>
DiskDot == << 46 >>
DiskNotes == << 110, 111, 116, 101, 115 >>
TypeICN == << 73, 67, 78 >>

\* StringUpper
StringUpper(s) ==
    [i \in 1..Len(s) |-> IF s[i] \in 97..122 THEN s[i] - 32 ELSE s[i]]

\* StringSplit( name, "." ).back(): what follows the last '.' of the name
RECURSIVE lastToken(_)
lastToken(s) ==
    IF s = << >> THEN << >>
    ELSE IF s[Len(s)] = 46 THEN << >>
    ELSE lastToken(SubSeq(s, 1, Len(s) - 1)) \o << s[Len(s)] >>

---------------------------------------------------------------------------
(* The sprite container encoder on bytes.  An image file is described by   *)
(* what IMG_Load and SDL_ConvertSurfaceFormat make of it:                  *)
(*   ok    IMG_Load returns a surface                                      *)
(*   w, h  the surface's width and height                                  *)
(*   rgba  the surface is in SDL_PIXELFORMAT_RGBA32 already                *)
(*   conv  SDL_ConvertSurfaceFormat succeeds (read when rgba is FALSE)     *)
(*   px    the value its texels are filled with                            *)

Image(ok, w, h, rgba, conv, px) ==
    [ok |-> ok, w |-> w, h |-> h, rgba |-> rgba, conv |-> conv, px |-> px]

\* Whether getPixelsFromSurface gets an RGBA surface to read.
hasRGBA(img) == img.rgba \/ img.conv

\* getPixelsFromSurface: row-major R, G, B, A of every texel, or nothing when
\* the conversion fails.
getPixelsFromSurface(img) ==
    IF ~hasRGBA(img)
    THEN << >>
    ELSE [i \in 1..(img.w * img.h * 4) |-> (img.px + ((i - 1) % 4)) % U8]

\* The 13-byte slot header of the loop body.
slotHeaderRaw(img, pixelDataStartsAt) ==
    putLE16(0) \o putLE16(0) \o putLE16(img.w % U16) \o putLE16(img.h % U16)
        \o << 0 >> \o putLE32(pixelDataStartsAt)

\* One iteration of the loop of spawnIcnFromDir on result: header, marker,
\* pixels.
appendSlot(result, img, offset) ==
    result \o slotHeaderRaw(img, offset + slotHeaderSize)
           \o << 171, 205, 239 >>
           \o getPixelsFromSurface(img)

\* The for loop of spawnIcnFromDir from file i on: failed when IMG_Load
\* returns nullptr for one of the files.
RECURSIVE spawnLoop(_, _, _, _)
spawnLoop(pngs, i, result, offset) ==
    IF i > Len(pngs)
    THEN [failed |-> FALSE, result |-> result]
    ELSE IF ~pngs[i].ok
    THEN [failed |-> TRUE, result |-> << >>]
    ELSE LET r == appendSlot(result, pngs[i], offset)
         IN  spawnLoop(pngs, i + 1, r, Len(r))

\* The icon header put in front of the slots.
iconHeaderRaw(n, result) == putLE16(n % U16) \o putLE32(Len(result))

\* AGGFile::spawnIcnFromDir on the listing pngs of a directory.
spawnIcnFromDir(pngs) ==
    IF pngs = << >>
    THEN << >>
    ELSE LET l == spawnLoop(pngs, 1, << >>, 0)
         IN  IF l.failed
             THEN << >>
             ELSE iconHeaderRaw(Len(pngs), l.result) \o l.result

---------------------------------------------------------------------------
(* Archive files.  A file is built from a description                      *)
(*   [count, entries: sequence of [name, crc, offset, size], dataLen]      *)
(* in the container layout: the 16-bit count, one 12-byte record per       *)
(* entry, the data, and the table of 15-byte NUL-padded names at the end.  *)

Entry(name, crc, offset, size) ==
    [name |-> name, crc |-> crc, offset |-> offset, size |-> size]

RECURSIVE directoryBytes(_)
directoryBytes(entries) ==
    IF entries = << >> THEN << >>
    ELSE putLE32(Head(entries).crc) \o putLE32(Head(entries).offset)
             \o putLE32(Head(entries).size) \o directoryBytes(Tail(entries))

paddedName(name) ==
    [i \in 1..maxFilenameSize |-> IF i <= Len(name) THEN name[i] ELSE 0]

RECURSIVE nameTableBytes(_)
nameTableBytes(entries) ==
    IF entries = << >> THEN << >>
    ELSE paddedName(Head(entries).name) \o nameTableBytes(Tail(entries))

dataBytes(n) == [i \in 1..n |-> 200 + i]

AggBytes(d) ==
    putLE16(d.count) \o directoryBytes(d.entries) \o dataBytes(d.dataLen)
        \o nameTableBytes(d.entries)

\* The archive files open is called with:
\*   1  two entries, the second of size 0
\*   2  the same two names with other records
\*   3  two entries of the same name
\*   4  one entry whose record reaches past the end of the file
\*   5  a header count of 3 on a file too short for three entries
\*   6  no entry
AggFiles ==
    << [count |-> 2, dataLen |-> 6,
        entries |-> << Entry(NameA, 7, 26, 4), Entry(NameB, 9, 30, 0) >>],
       [count |-> 2, dataLen |-> 6,
        entries |-> << Entry(NameA, 7, 28, 2), Entry(NameB, 9, 26, 2) >>],
       [count |-> 2, dataLen |-> 6,
        entries |-> << Entry(NameA, 7, 26, 1), Entry(NameA, 9, 27, 1) >>],
       [count |-> 1, dataLen |-> 4,
        entries |-> << Entry(NameA, 7, 14, 100) >>],
       [count |-> 3, dataLen |-> 4,
        entries |-> << Entry(NameA, 7, 14, 4) >>],
       [count |-> 0, dataLen |-> 3, entries |-> << >>] >>

\* The content of each of them.
AggContent == [f \in DOMAIN AggFiles |-> AggBytes(AggFiles[f])]

---------------------------------------------------------------------------
(* The directory beside an archive file, as System::IsDirectory and        *)
(* ListFiles::ReadDir show it: whether it is a directory, and its children *)
(* [base: base name, isDir, pngs: the listing of its png files].           *)

Child(base, isDir, pngs) == [base |-> base, isDir |-> isDir, pngs |-> pngs]

Img1 == Image(TRUE, 1, 1, TRUE, TRUE, 10)
Img2 == Image(TRUE, 2, 1, FALSE, TRUE, 20)
ImgUndecodable == Image(FALSE, 0, 0, FALSE, FALSE, 0)
ImgUnconvertible == Image(TRUE, 1, 1, FALSE, FALSE, 30)

\* The states of that directory:
\*   1  not a directory
\*   2  overrides of A.ICN (two images) and B.ICN, ".", a file and a WAV
\*   3  A.ICN holds an undecodable second image, B.ICN an image that cannot
\*      be converted, C.ICN is fine
Dirs ==
    << [isDir |-> FALSE, children |-> << >>],
       [isDir |-> TRUE,
        children |-> << Child(DiskDot, TRUE, << >>),
                        Child(DiskA, TRUE, << Img2, Img1 >>),
                        Child(DiskNotes, FALSE, << >>),
                        Child(DiskWav, TRUE, << Img1 >>),
                        Child(DiskB, TRUE, << Img1 >>) >>],
       [isDir |-> TRUE,
        children |-> << Child(DiskA, TRUE, << Img1, ImgUndecodable >>),
                        Child(DiskB, TRUE, << ImgUnconvertible >>),
                        Child(DiskC, TRUE, << Img1 >>) >>] >>

\* The body of the loop of collectExternals for one child.
collectChild(ext, child) ==
    IF ~child.isDir THEN ext
    ELSE LET name == StringUpper(child.base)
         IN  IF name = << 46 >> \/ name = << 46, 46 >> THEN ext
             ELSE LET externalRaw == IF lastToken(name) = TypeICN
                                     THEN spawnIcnFromDir(child.pngs)
                                     ELSE << >>
                  IN  IF externalRaw # << >>
                      THEN try_emplace(ext, name, << externalRaw, TRUE >>)
                      ELSE ext

RECURSIVE collectLoop(_, _, _)
collectLoop(ext, children, i) ==
    IF i > Len(children) THEN ext
    ELSE collectLoop(collectChild(ext, children[i]), children, i + 1)

\* AGGFile::collectExternals: _externals after the scan of directory dir.
collectExternals(ext, dir) ==
    IF dir.isDir THEN collectLoop(ext, dir.children, 1) ELSE ext

---------------------------------------------------------------------------
(* AGGFile::open.                                                          *)

\* (a variant in which the first 4 bytes of a record are not skipped)
RECURSIVE insertEntries_NoSkip(_, _, _, _, _)
insertEntries_NoSkip(m, fileEntries, nameEntries, n, i) ==
    IF i >= n THEN m
    ELSE LET name == toString(nameEntries, i * maxFilenameSize, maxFilenameSize)
             fileOffset == getLE32(fileEntries, i * fileRecordSize)
             fileSize == getLE32(fileEntries, i * fileRecordSize + 4)
         IN  insertEntries_NoSkip(
                 try_emplace(m, name, << fileSize, fileOffset >>),
                 fileEntries, nameEntries, n, i + 1)

\* The for loop of open: record i is read from fileEntries (the 4 bytes of
\* the CRC skipped), name i from nameEntries.
RECURSIVE insertEntries(_, _, _, _, _)
insertEntries(m, fileEntries, nameEntries, n, i) ==
    IF i >= n THEN m
    ELSE LET name == toString(nameEntries, i * maxFilenameSize, maxFilenameSize)
             fileOffset == getLE32(fileEntries, i * fileRecordSize + 4)
             fileSize == getLE32(fileEntries, i * fileRecordSize + 8)
         IN  insertEntries(try_emplace(m, name, << fileSize, fileOffset >>),
                           fileEntries, nameEntries, n, i + 1)

Faults == {"none", "open", "dir", "names"}

\* open( fileName ) on the current object, where bytes is the content of the
\* file, dir the directory beside it and fault the I/O fault that happens
\* during the call: the members after the call, what it returns and why.
\* The failure flag of _stream, once set by a failed read, stays set: open
\* does nothing that clears it.
AGGOpen(bytes, dir, fault) ==
    IF fault = "open"
    THEN [files |-> files, externals |-> externals,
          stream |-> [bytes |-> << >>, fail |-> stream.fail],
          ret |-> FALSE, why |-> "open"]
    ELSE
    LET size == Len(bytes)
        n == getLE16(bytes, 0)
    IN  IF n * (fileRecordSize + maxFilenameSize) >= size
        THEN [files |-> files, externals |-> externals,
              stream |-> [bytes |-> bytes, fail |-> stream.fail],
              ret |-> FALSE, why |-> "guard"]
        ELSE
        LET ext == collectExternals(externals, dir)
            fe == getRaw(bytes, 2, n * fileRecordSize, fault = "dir")
            nameEntriesSize == maxFilenameSize * n
            ne == getRaw(bytes, size - nameEntriesSize, nameEntriesSize,
                         fault = "names")
            m == insertEntries(files, fe.data, ne.data, n, 0)
            failed == stream.fail \/ fe.fail \/ ne.fail
            st == [bytes |-> bytes, fail |-> failed]
        IN  IF Cardinality(DOMAIN m) # n
            THEN [files |-> EmptyMap, externals |-> EmptyMap, stream |-> st,
                  ret |-> FALSE, why |-> "mismatch"]
            ELSE [files |-> m, externals |-> ext, stream |-> st,
                  ret |-> ~failed, why |-> IF failed THEN "io" ELSE "ok"]

---------------------------------------------------------------------------
(* AGGFile::read.                                                          *)

\* (a variant that never looks at the override store)
AGGRead_ArchiveOnly(fileName) ==
    IF fileName \in DOMAIN files /\ files[fileName][1] > 0
    THEN LET r == getRaw(stream.bytes, files[fileName][2],
                         files[fileName][1], FALSE)
         IN  [ret |-> r.data, looked |-> FALSE, external |-> FALSE,
              sought |-> TRUE, fail |-> stream.fail \/ r.fail]
    ELSE [ret |-> << >>, looked |-> FALSE, external |-> FALSE,
          sought |-> FALSE, fail |-> stream.fail]

\* (a variant that looks at the override store before the recorded size)
AGGRead_OverrideFirst(fileName) ==
    IF fileName \in DOMAIN files
    THEN IF fileName \in DOMAIN externals
         THEN [ret |-> externals[fileName][1], looked |-> TRUE,
               external |-> TRUE, sought |-> FALSE, fail |-> stream.fail]
         ELSE IF files[fileName][1] > 0
         THEN LET r == getRaw(stream.bytes, files[fileName][2],
                              files[fileName][1], FALSE)
              IN  [ret |-> r.data, looked |-> TRUE, external |-> FALSE,
                   sought |-> TRUE, fail |-> stream.fail \/ r.fail]
         ELSE [ret |-> << >>, looked |-> TRUE, external |-> FALSE,
               sought |-> FALSE, fail |-> stream.fail]
    ELSE [ret |-> << >>, looked |-> FALSE, external |-> FALSE,
          sought |-> FALSE, fail |-> stream.fail]

\* read( fileName ) on the current object: the bytes returned, whether the
\* override store was consulted (looked) and used (external), whether the
\* archive file was sought, and the failure flag of the stream afterwards.
AGGRead(fileName) ==
    IF fileName \in DOMAIN files /\ files[fileName][1] > 0
    THEN IF fileName \in DOMAIN externals
         THEN [ret |-> externals[fileName][1], looked |-> TRUE,
               external |-> TRUE, sought |-> FALSE, fail |-> stream.fail]
         ELSE LET r == getRaw(stream.bytes, files[fileName][2],
                              files[fileName][1], FALSE)
              IN  [ret |-> r.data, looked |-> TRUE, external |-> FALSE,
                   sought |-> TRUE, fail |-> stream.fail \/ r.fail]
    ELSE [ret |-> << >>, looked |-> FALSE, external |-> FALSE,
          sought |-> FALSE, fail |-> stream.fail]

ReadNames == {NameA, NameB, NameC}

---------------------------------------------------------------------------
(* The facade's actions.                                                   *)

NoOpen == [file |-> 0, dir |-> 0, fault |-> "none", ret |-> FALSE,
           why |-> "none"]
NoRead == [name |-> << >>, ret |-> << >>, looked |-> FALSE,
           external |-> FALSE, sought |-> FALSE, called |-> FALSE]

InitFacade ==
    /\ files = EmptyMap
    /\ externals = EmptyMap
    /\ stream = [bytes |-> << >>, fail |-> FALSE]
    /\ lastOpen = NoOpen
    /\ lastRead = NoRead
    /\ opened = {}
    /\ nOpens = 0

Open ==
    /\ nOpens < MaxOpens
    /\ \E f \in DOMAIN AggFiles, d \in DOMAIN Dirs, fault \in Faults :
          LET o == AGGOpen(AggContent[f], Dirs[d], fault)
          IN  /\ files' = o.files
              /\ externals' = o.externals
              /\ stream' = o.stream
              /\ lastOpen' = [file |-> f, dir |-> d, fault |-> fault,
                              ret |-> o.ret, why |-> o.why]
              /\ opened' = opened \cup {f}
    /\ lastRead' = NoRead
    /\ nOpens' = nOpens + 1
    /\ UNCHANGED encVars

Read ==
    /\ \E fileName \in ReadNames :
          LET r == AGGRead(fileName)
          IN  /\ lastRead' = [name |-> fileName, ret |-> r.ret,
                              looked |-> r.looked, external |-> r.external,
                              sought |-> r.sought, called |-> TRUE]
              /\ stream' = [stream EXCEPT !.fail = r.fail]
    /\ UNCHANGED <<files, externals, lastOpen, opened, nOpens>>
    /\ UNCHANGED encVars

---------------------------------------------------------------------------
(* spawnIcnFromDir step by step, on sizes.  The listing is either explicit *)
(* (at most MaxPngs files, each file any of EncImages) or a bulk listing   *)
(* of 65537 files that all hold a 1x1 RGBA image.                          *)

\* An image as the encoder sees it (its texels do not matter here).
EncImage(ok, w, h, rgba, conv) ==
    [ok |-> ok, w |-> w, h |-> h, rgba |-> rgba, conv |-> conv]

EncSmall == EncImage(TRUE, 1, 1, TRUE, TRUE)
EncImages ==
    { EncImage(FALSE, 0, 0, FALSE, FALSE),     \* IMG_Load fails
      EncSmall,
      EncImage(TRUE, 2, 2, FALSE, TRUE),       \* converted to RGBA32
      EncImage(TRUE, 1, 1, FALSE, FALSE),      \* the conversion fails
      EncImage(TRUE, 65537, 1, TRUE, TRUE),    \* wider than 16 bits hold
      EncImage(TRUE, 23170, 23170, TRUE, TRUE) \* 2147395600 bytes of texels
    }

Listings ==
    [n : 0..MaxPngs, bulk : {FALSE}] \cup {[n |-> U16 + 1, bulk |-> TRUE]}

\* Sizes that may pass 2^31 are kept as two limbs << hi, lo >> of base 2^16,
\* lo < 2^16: num(x) for a number x below 2^31, plus for the sum, u32 for
\* static_cast<uint32_t>.
num(x) == << x \div U16, x % U16 >>

plus(a, b) == << a[1] + b[1] + ((a[2] + b[2]) \div U16), (a[2] + b[2]) % U16 >>

u32(a) == << a[1] % U16, a[2] >>

\* (a variant in which the stored offset is that of the slot header itself)
pixelDataStartsAt_HeaderStart(offset) == u32(offset)

\* const uint32_t pixelDataStartsAt = currentOffset + slotHeaderSize
pixelDataStartsAt(offset) == u32(plus(offset, num(slotHeaderSize)))

\* The bytes getPixelsFromSurface returns for the image.
pixelsSize(img) == IF hasRGBA(img) THEN img.w * img.h * 4 ELSE 0

\* (a variant in which the three marker bytes are not appended)
slotSize_NoMarker(img) == slotHeaderSize + pixelsSize(img)

\* The bytes one iteration of the loop appends to result.
slotSize(img) == slotHeaderSize + markerSize + pixelsSize(img)

\* result.size() after the iteration has appended header, marker and pixels.
resultSizeAfter(size, img) == plus(size, num(slotSize(img)))

\* iconHeader.putLE32( static_cast<uint32_t>( result.size() ) )
totalSizeField(size) == u32(size)

\* The fields of the slot header that the loop body fills in.
SlotHeader(img, offset) ==
    [width |-> img.w % U16, height |-> img.h % U16,
     offsetData |-> pixelDataStartsAt(offset)]

\* const uint16_t count = static_cast<uint16_t>( pngFiles.size() )
countOf(n) == n % U16

\* SDL surfaces created by one iteration of the loop: the one of IMG_Load
\* and, for a surface of another format, the converted copy if the
\* conversion succeeds.
surfacesCreated(img) == 1 + (IF ~img.rgba /\ img.conv THEN 1 ELSE 0)

\* SDL surfaces freed by one iteration: the converted copy, by
\* getPixelsFromSurface; spawnIcnFromDir frees nothing.
surfacesFreed(img) == IF ~img.rgba /\ img.conv THEN 1 ELSE 0

NoHeader == [width |-> 0, height |-> 0, offsetData |-> num(0)]
NoRet == [kind |-> "none", frameCount |-> 0, totalSize |-> num(0),
          size |-> num(0), slots |-> 0]
NoHist == [before |-> num(0), total |-> num(0), emBefore |-> num(0),
           emTotal |-> num(0),
           allConv |-> TRUE, allFit |-> TRUE, decoded |-> 0]

InitEnc ==
    /\ pc = "idle"
    /\ pngFiles = [n |-> 0, bulk |-> FALSE]
    /\ idx = 0
    /\ count = 0
    /\ currentOffset = num(0)
    /\ resultSize = num(0)
    /\ nSlots = 0
    /\ slotHeader = NoHeader
    /\ slotAt = num(0)
    /\ live = 0
    /\ ret = NoRet
    /\ hist = NoHist

\* The call, up to the for loop: an empty listing returns {} at once.
EncStart ==
    /\ pc = "idle"
    /\ \E l \in Listings :
          /\ pngFiles' = l
          /\ pc' = IF l.n = 0 THEN "done" ELSE "loop"
          /\ ret' = IF l.n = 0 THEN [NoRet EXCEPT !.kind = "empty"] ELSE ret
          /\ count' = IF l.n = 0 THEN count ELSE countOf(l.n)
    /\ UNCHANGED <<idx, currentOffset, resultSize, nSlots, slotHeader, slotAt,
                   live, hist>>
    /\ UNCHANGED facadeVars

\* One iteration of the for loop on the next file of the listing.
EncIter ==
    /\ pc = "loop"
    /\ idx < pngFiles.n
    /\ \E img \in (IF pngFiles.bulk THEN {EncSmall} ELSE EncImages) :
          IF ~img.ok
          THEN /\ pc' = "done"
               /\ ret' = [NoRet EXCEPT !.kind = "empty"]
               /\ UNCHANGED <<idx, currentOffset, resultSize, nSlots,
                              slotHeader, slotAt, live, hist>>
          ELSE /\ slotHeader' = SlotHeader(img, currentOffset)
               /\ slotAt' = resultSize
               /\ resultSize' = resultSizeAfter(resultSize, img)
               /\ currentOffset' = u32(resultSizeAfter(resultSize, img))
               /\ nSlots' = nSlots + 1
               /\ idx' = idx + 1
               /\ live' = live + surfacesCreated(img) - surfacesFreed(img)
               /\ hist' = [before |-> hist.total,
                           total |-> plus(hist.total,
                                          num(13 + 3 + 4 * img.w * img.h)),
                           emBefore |-> hist.emTotal,
                           emTotal |-> plus(hist.emTotal,
                              num(13 + 3 + (IF img.rgba \/ img.conv
                                            THEN 4 * img.w * img.h ELSE 0))),
                           allConv |-> hist.allConv /\ (img.rgba \/ img.conv),
                           allFit |-> hist.allFit /\ img.w < 65536
                                         /\ img.h < 65536,
                           decoded |-> hist.decoded + 1]
               /\ UNCHANGED <<pc, ret>>
    /\ UNCHANGED <<pngFiles, count>>
    /\ UNCHANGED facadeVars

\* After the loop: the icon header is put in front and the blob returned.
EncFinish ==
    /\ pc = "loop"
    /\ idx = pngFiles.n
    /\ pc' = "done"
    /\ ret' = [kind |-> "blob", frameCount |-> count,
               totalSize |-> totalSizeField(resultSize),
               size |-> plus(num(iconHeaderSize), resultSize),
               slots |-> nSlots]
    /\ UNCHANGED <<pngFiles, idx, count, currentOffset, resultSize, nSlots,
                   slotHeader, slotAt, live, hist>>
    /\ UNCHANGED facadeVars

---------------------------------------------------------------------------
(* The specifications.                                                     *)

Init == InitFacade /\ InitEnc

Next == Open \/ Read

Spec == Init /\ [][Next]_vars

NextEnc == EncStart \/ EncIter \/ EncFinish

SpecEnc == Init /\ [][NextEnc]_vars

---------------------------------------------------------------------------
(* Properties of the facade (checked under Spec).                          *)

\* The name the last read was called with has an entry in both maps.
ReadOfOverridden ==
    /\ lastOpen.ret
    /\ lastRead.called
    /\ lastRead.name \in DOMAIN files
    /\ lastRead.name \in DOMAIN externals

\* C1 as stated: after a successful open, a read of any name that has an
\* entry in the index and an entry in the override store returns exactly the
\* override bytes, and nothing is extracted from the archive file.
C1_OverrideAlwaysWins ==
    ReadOfOverridden =>
        /\ lastRead.ret = externals[lastRead.name][1]
        /\ ~lastRead.sought

\* C1 as amended: after a successful open, a read of any name that has an
\* entry of recorded size greater than zero in the index and an entry in the
\* override store returns exactly the override bytes, and nothing is
\* extracted from the archive file.
C1_OverrideWinsWhenSized ==
    (ReadOfOverridden /\ files[lastRead.name][1] > 0) =>
        /\ lastRead.ret = externals[lastRead.name][1]
        /\ ~lastRead.sought

C1_Witness ==
    /\ ReadOfOverridden
    /\ files[lastRead.name][1] > 0
    /\ lastRead.external
    /\ lastRead.ret # << >>

\* C2: a read of a name whose record has size 0 returns the empty sequence
\* without consulting the override store or the archive file, whether or not
\* an override is registered; a read of a name absent from the index returns
\* the empty sequence even if an override of that name exists.
C2_ZeroSizeOrAbsentIsEmpty ==
    (lastRead.called
        /\ (lastRead.name \in DOMAIN files => files[lastRead.name][1] = 0)) =>
        /\ lastRead.ret = << >>
        /\ ~lastRead.looked
        /\ ~lastRead.sought

C2_Witness ==
    /\ lastOpen.ret
    /\ lastRead.called
    /\ lastRead.name \in DOMAIN files
    /\ files[lastRead.name][1] = 0
    /\ lastRead.name \in DOMAIN externals
    /\ lastRead.ret = << >>

\* The index that the description of archive file f stands for: name i
\* mapped to << size, offset >> of record i.
IndexHolds(f) ==
    LET d == AggFiles[f]
    IN  /\ Cardinality(DOMAIN files) = getLE16(AggContent[f], 0)
        /\ d.count = Len(d.entries)
        /\ \A i \in 1..d.count :
              /\ d.entries[i].name \in DOMAIN files
              /\ files[d.entries[i].name]
                    = << d.entries[i].size, d.entries[i].offset >>

\* C3: after any sequence of open calls on one and the same container file
\* that ends with a successful open, the index holds exactly count entries,
\* and maps the i-th name of the name table to the offset and size of the
\* i-th directory record.
C3_IndexIsDirectory ==
    (lastOpen.ret /\ opened = {lastOpen.file}) => IndexHolds(lastOpen.file)

C3_Witness ==
    /\ lastOpen.ret
    /\ nOpens >= 2
    /\ opened = {lastOpen.file}
    /\ Cardinality(DOMAIN files) = 2
    /\ IndexHolds(lastOpen.file)

\* C4: after an open call that returns failure by the size guard, by the
\* count of distinct names or by an I/O error during the reads, the object
\* holds no index entry and no override entry.
C4_FailedOpenLeavesNothing ==
    (lastOpen.why \in {"guard", "mismatch", "io"}) =>
        /\ DOMAIN files = {}
        /\ DOMAIN externals = {}

\* C5: after a successful open, every record of the index satisfies
\* offset + size <= the length of the archive file.
C5_RecordsInsideFile ==
    lastOpen.ret =>
        \A name \in DOMAIN files :
            files[name][2] + files[name][1] <= Len(stream.bytes)

\* A listing with an image that IMG_Load or the conversion to RGBA rejects.
hasBadImage(pngs) ==
    \E i \in 1..Len(pngs) : ~pngs[i].ok \/ ~hasRGBA(pngs[i])

\* C8: when an image of an override directory cannot be decoded or cannot be
\* converted to RGBA, the encoder returns the empty blob and no override is
\* registered for that directory, while the overrides of the other
\* directories of the scan are registered.  (Stated of a first open call
\* that succeeds: the override store was empty before its scan.)
C8_EncoderFailsClosed ==
    (nOpens = 1 /\ lastOpen.ret) =>
        \A i \in 1..Len(Dirs[lastOpen.dir].children) :
            LET child == Dirs[lastOpen.dir].children[i]
                name == StringUpper(child.base)
            IN  (child.isDir /\ lastToken(name) = TypeICN
                    /\ child.pngs # << >>) =>
                    IF hasBadImage(child.pngs)
                    THEN /\ spawnIcnFromDir(child.pngs) = << >>
                         /\ name \notin DOMAIN externals
                    ELSE /\ name \in DOMAIN externals
                         /\ externals[name][1] = spawnIcnFromDir(child.pngs)

---------------------------------------------------------------------------
(* Properties of the encoder (checked under SpecEnc).                      *)

\* The slot header built last is that of frame k = nSlots - 1 of a result
\* that is being built or has been returned.
FrameBuilt == nSlots >= 1 /\ (pc = "loop" \/ ret.kind = "blob")

\* C6 as stated: with two or more decodable images, the pixelDataOffset of
\* frame k >= 1 equals the total emitted length of frames 0..k-1, each of
\* 13 + 3 + 4*width*height bytes.
C6_OffsetIsEmittedLength ==
    (FrameBuilt /\ nSlots >= 2) => slotHeader.offsetData = hist.before

\* C6 as amended: with two or more decodable images, the pixelDataOffset of
\* frame k >= 1 equals 13 plus the total emitted length of frames 0..k-1,
\* modulo 2^32, where a frame's emitted length is 13 + 3 + 4*width*height,
\* and 13 + 3 for a frame whose conversion to RGBA failed.
C6_OffsetIsEmittedLengthPlusHeader ==
    (FrameBuilt /\ nSlots >= 2) =>
        slotHeader.offsetData = u32(plus(hist.emBefore, num(13)))

\* A 2x2 image followed by a 1x1 image: the second offset is 32 + 13.
C6_Witness ==
    /\ ret.kind = "blob"
    /\ nSlots = 2
    /\ hist.before = num(32)
    /\ slotHeader.width = 1
    /\ slotHeader.offsetData = num(45)

\* C7: in every non-empty blob returned, the frameCount field equals the
\* number of frame records in the blob and the totalSize field equals the
\* length of the blob minus 6.
C7_IconHeaderCorrect ==
    ret.kind = "blob" =>
        /\ ret.frameCount = ret.slots
        /\ plus(ret.totalSize, num(6)) = ret.size

OffsetFits == plus(hist.before, num(13))[1] < U16

C10_NoSurfaceAlive == pc = "done" => live = 0

===========================================================================
